---- MODULE Spec2Model ----
(***************************************************************************)
(* KAT "sect": per-sequence k-mer coverage and the GC x coverage           *)
(* contamination matrix (src/src/sect.cc, with the legacy routine of       *)
(* src/src/sect.hpp).                                                      *)
(*                                                                         *)
(* The main thread runs execute(): processSeqFile() reads the sequence     *)
(* file in batches, analyseBatch() forks `threads` workers per batch and   *)
(* joins them, the batch reports are printed, the batch vectors are        *)
(* destroyed; after the loop merge() sums the per-thread matrices.         *)
(*                                                                         *)
(* A base string is a sequence of one-character strings.  A C++ double is  *)
(* kept as the pair of operands of the division that produced it,          *)
(* [num, den]; den = 0 only arises as 0/0 (NaN).  Indices are 0-based as   *)
(* in the source; TLA+ sequences are 1-based, hence the "+ 1".             *)
(***************************************************************************)
EXTENDS Integers, Sequences, FiniteSets, TLC

(***************************************************************************)
(* Bounds of the model.                                                    *)
(***************************************************************************)
\* Most records in the sequence file.
MaxRecords == 3
\* Records per batch (kat::BATCH_SIZE, 1024 in sect.hpp:57, scaled down).
BATCH_SIZE == 2
\* Most worker threads (--threads).
MaxThreads == 3
\* Longest base string of the single-sequence specification SeqSpec.
MaxSeqLen == 3
\* K-mer length (--mer_len).
merLen == 2
\* Matrix dimensions (--gc_bins, --cvg_bins; 1001 by default).
gcBins == 2
cvgBins == 2

(***************************************************************************)
(* Program constants.                                                      *)
(***************************************************************************)
\* average_cvg * 0.1: the linear compression divides by 10.
CvgCompress == 10
\* "Assume log_cvg 5 is max value": cvgBins / 5.0.
LogCvgMax == 5

\* Bases that occur in the modelled sequence files: two nucleotides, the
\* ambiguity code and one lower-case nucleotide.
Bases == {"A", "G", "N", "g"}
\* Counts the k-mer index can hold.
CountVals == {0, 20}

Min(a, b) == IF a < b THEN a ELSE b

\* b^e, held at the largest 32-bit integer once it would pass it.
RECURSIVE Pow(_, _)
Pow(b, e) ==
    IF e = 0 THEN 1
    ELSE IF b = 0 THEN 0
    ELSE LET p == Pow(b, e - 1) IN
         IF p > 2147483647 \div b THEN 2147483647 ELSE b * p

RECURSIVE SumSeq(_)
SumSeq(s) == IF s = <<>> THEN 0 ELSE Head(s) + SumSeq(Tail(s))

\* All base strings of length at most n over Bases.
Strings(n) == UNION {[1..k -> Bases] : k \in 0..n}

(***************************************************************************)
(* The count index (jellyfish hash), consumed only.                        *)
(***************************************************************************)
\* Jellyfish's 2-bit code orders the nucleotides A < C < G < T.
BaseCode(c) == CASE c = "A" -> 0 [] c = "C" -> 1 [] c = "G" -> 2 [] c = "T" -> 3

Complement(c) == CASE c = "A" -> "T" [] c = "C" -> "G" [] c = "G" -> "C" [] c = "T" -> "A"

ReverseComplement(mer) ==
    [i \in 1..Len(mer) |-> Complement(mer[Len(mer) + 1 - i])]

RECURSIVE MerLess(_, _)
MerLess(a, b) ==
    IF a = <<>> THEN FALSE
    ELSE IF BaseCode(Head(a)) # BaseCode(Head(b))
         THEN BaseCode(Head(a)) < BaseCode(Head(b))
         ELSE MerLess(Tail(a), Tail(b))

\* The strand-independent representative of a k-mer.
Canonical(mer) ==
    IF MerLess(ReverseComplement(mer), mer) THEN ReverseComplement(mer) ELSE mer

\* mer_dna mer(merstr): the 2-bit encoding reads both cases of a nucleotide
\* as that nucleotide.
ToUpper(c) ==
    CASE c = "a" -> "A" [] c = "c" -> "C" [] c = "g" -> "G" [] c = "t" -> "T"
      [] c = "n" -> "N" [] OTHER -> c

mer_dna(merstr) == [i \in 1..Len(merstr) |-> ToUpper(merstr[i])]

\* JellyfishHelper::getCount(hash, mer, canonical).
getCount(h, mer, canon) == h[IF canon THEN Canonical(mer) ELSE mer]

\* The k-mers a lookup can be made for, and the keys they reach.
LookupMers == [1..merLen -> Bases \cap {"A", "C", "G", "T"}]
HashKeys(canon) == {IF canon THEN Canonical(m) ELSE m : m \in LookupMers}

(***************************************************************************)
(* processSeq: the per-sequence computation.                               *)
(***************************************************************************)
\* Mutant of validKmer: T is not among the accepted bases.
validKmerNoT(merstr) ==
    \A i \in 1..Len(merstr) : merstr[i] \in {"A", "G", "C"}

validKmer(merstr) ==
    \A i \in 1..Len(merstr) : merstr[i] \in {"A", "T", "G", "C"}

\* std::string::substr(pos, n): at most n characters from 0-based pos.
substr(seq, pos, n) == SubSeq(seq, pos + 1, Min(pos + n, Len(seq)))

\* Mutant of countWindows: the loop stops one window early.
RECURSIVE countWindowsShort(_, _, _, _, _, _, _, _)
countWindowsShort(seq, h, canon, i, nbCounts, seqCounts, sum, looked) ==
    IF i + 1 >= nbCounts
    THEN [seqCounts |-> seqCounts, sum |-> sum, looked |-> looked]
    ELSE LET merstr == substr(seq, i, merLen) IN
         IF ~validKmer(merstr)
         THEN countWindowsShort(seq, h, canon, i + 1, nbCounts,
                                [seqCounts EXCEPT ![i + 1] = 0], sum, looked)
         ELSE LET count == getCount(h, mer_dna(merstr), canon) IN
              countWindowsShort(seq, h, canon, i + 1, nbCounts,
                                [seqCounts EXCEPT ![i + 1] = count], sum + count,
                                looked \cup {[off |-> i, mer |-> mer_dna(merstr)]})

\* Mutant of countWindows: the index is consulted for every window, before
\* the window is validated.
RECURSIVE countWindowsLookupFirst(_, _, _, _, _, _, _, _)
countWindowsLookupFirst(seq, h, canon, i, nbCounts, seqCounts, sum, looked) ==
    IF i >= nbCounts
    THEN [seqCounts |-> seqCounts, sum |-> sum, looked |-> looked]
    ELSE LET merstr == substr(seq, i, merLen)
             asked == looked \cup {[off |-> i, mer |-> mer_dna(merstr)]}
         IN
         IF ~validKmer(merstr)
         THEN countWindowsLookupFirst(seq, h, canon, i + 1, nbCounts,
                                      [seqCounts EXCEPT ![i + 1] = 0], sum, asked)
         ELSE LET count == getCount(h, mer_dna(merstr), canon) IN
              countWindowsLookupFirst(seq, h, canon, i + 1, nbCounts,
                                      [seqCounts EXCEPT ![i + 1] = count],
                                      sum + count, asked)

\* The window loop of processSeq: fills seqCounts[i] for i < nbCounts,
\* accumulates sum over the windows that were looked up, and `looked` keeps
\* the getCount calls made (window offset and k-mer).
RECURSIVE countWindows(_, _, _, _, _, _, _, _)
countWindows(seq, h, canon, i, nbCounts, seqCounts, sum, looked) ==
    IF i >= nbCounts
    THEN [seqCounts |-> seqCounts, sum |-> sum, looked |-> looked]
    ELSE LET merstr == substr(seq, i, merLen) IN
         IF ~validKmer(merstr)
         THEN countWindows(seq, h, canon, i + 1, nbCounts,
                           [seqCounts EXCEPT ![i + 1] = 0], sum, looked)
         ELSE LET count == getCount(h, mer_dna(merstr), canon) IN
              countWindows(seq, h, canon, i + 1, nbCounts,
                           [seqCounts EXCEPT ![i + 1] = count], sum + count,
                           looked \cup {[off |-> i, mer |-> mer_dna(merstr)]})

\* std::sort, ascending.
RECURSIVE insertSorted(_, _)
insertSorted(s, v) ==
    IF s = <<>> THEN <<v>>
    ELSE IF v <= Head(s) THEN <<v>> \o s
         ELSE <<Head(s)>> \o insertSorted(Tail(s), v)

RECURSIVE sort(_)
sort(s) == IF s = <<>> THEN <<>> ELSE insertSorted(sort(Tail(s)), Head(s))

\* A shared_ptr<vector<uint64_t>>: null, or pointing to a vector.
NullPtr == [null |-> TRUE, v |-> <<>>]
PtrTo(vec) == [null |-> FALSE, v |-> vec]

\* A double: the operands of the division that produced it (0/0 is NaN).
Dbl(n, d) == [num |-> n, den |-> d]
IsNaN(x) == x.den = 0

CountChars(seq, cs) == Cardinality({i \in 1..Len(seq) : seq[i] \in cs})

\* Mutant of medianOf: the lower of the two middle elements.
medianLower(seqCounts) == sort(seqCounts)[((Len(seqCounts) - 1) \div 2) + 1]

\* sortedSeqCounts[sortedSeqCounts.size() / 2]
medianOf(seqCounts) == sort(seqCounts)[(Len(seqCounts) \div 2) + 1]

\* Mutant of meanOf: divides by the number of windows that were looked up.
meanOfLooked(w, nbCounts) ==
    IF w.looked = {} THEN Dbl(0, 1) ELSE Dbl(w.sum, Cardinality(w.looked))

\* (double)sum / (double)nbCounts, w the outcome of the window loop.
meanOf(w, nbCounts) == Dbl(w.sum, nbCounts)

\* Mutant of gcPerc: the N bases stay in the denominator.
gcPercOfLength(seq) ==
    Dbl(CountChars(seq, {"G", "g"}) + CountChars(seq, {"C", "c"}), Len(seq))

\* gc_perc = (double)(gs + cs) / (double)(seqLength - ns)
gcPerc(seq) ==
    LET gs == CountChars(seq, {"G", "g"})
        cs == CountChars(seq, {"C", "c"})
        ns == CountChars(seq, {"N", "n"})
    IN Dbl(gs + cs, Len(seq) - ns)

\* Mutant of nbNonZeroOf: one for every window with a count above 0.
nbNonZeroPerWindow(seqCounts) ==
    Cardinality({k \in 1..Len(seqCounts) : seqCounts[k] > 0})

\* "if (seqCounts != 0) nbNonZero++": the test is on the pointer, which
\* make_shared has just set, so the counter becomes 1 whatever the counts.
nbNonZeroOf(seqCounts) == 1

\* Everything processSeq derives from one sequence before it bins it:
\* the count vector (absent when the sequence is shorter than the k-mer),
\* the getCount calls made, average_cvg, nbNonZero and gc_perc.
seqStats(seq, h, canon, med) ==
    LET seqLength == Len(seq)
        nbCounts  == seqLength - merLen + 1
        tail == [seqLength |-> seqLength, gc_perc |-> gcPerc(seq)]
    IN IF seqLength < merLen
       THEN [tooShort |-> TRUE, seqCounts |-> NullPtr, sum |-> 0, looked |-> {},
             average_cvg |-> Dbl(0, 1), nbNonZero |-> 0] @@ tail
       ELSE LET w == countWindows(seq, h, canon, 0, nbCounts,
                                  [i \in 1..nbCounts |-> 0], 0, {})
            IN [tooShort |-> FALSE, seqCounts |-> PtrTo(w.seqCounts),
                sum |-> w.sum, looked |-> w.looked,
                average_cvg |-> IF med THEN Dbl(medianOf(w.seqCounts), 1)
                                ELSE meanOf(w, nbCounts),
                nbNonZero |-> nbNonZeroOf(w.seqCounts)] @@ tail

\* uint16_t x = gc_perc * gcBins.  Converting NaN to an integer is undefined:
\* any index may result; gcBins stands for every index past the last bin.
xBins(gc_perc) ==
    IF IsNaN(gc_perc) THEN 0..gcBins
    ELSE {(gc_perc.num * gcBins) \div gc_perc.den}

\* The largest j in 0..cvgBins with a^cvgBins >= 10^(LogCvgMax * j), i.e.
\* trunc(log10(a) * (cvgBins / 5.0)) capped at cvgBins, for a = num/den >= 1.
RECURSIVE logBin(_, _, _)
logBin(num, den, j) ==
    IF j < cvgBins /\
       Pow(num, cvgBins) \div Pow(den, cvgBins) >= Pow(10, LogCvgMax * (j + 1))
    THEN logBin(num, den, j + 1) ELSE j

\* Mutant of linearBin: the scaled coverage is not capped.
linearBinUncapped(average_cvg) ==
    average_cvg.num \div (CvgCompress * average_cvg.den)

\* Linear scale: average_cvg * 0.1, capped at cvgBins - 1, truncated.
linearBin(average_cvg) ==
    Min(average_cvg.num \div (CvgCompress * average_cvg.den), cvgBins - 1)

\* uint16_t y = compressed_cvg >= cvgBins ? cvgBins - 1 : compressed_cvg.
\* In log scale log10(0) is -inf, and a product at or below -1 is negative:
\* converting either to uint16_t is undefined, any index may result.
yBins(average_cvg, logscale) ==
    LET n == average_cvg.num
        d == average_cvg.den
    IN IF ~logscale
       THEN {linearBin(average_cvg)}
       ELSE IF n = 0 THEN 0..cvgBins
       ELSE IF n >= d THEN {Min(logBin(n, d, 0), cvgBins - 1)}
       ELSE IF Pow(n, cvgBins) * Pow(10, LogCvgMax) > Pow(d, cvgBins) THEN {0}
       ELSE 0..cvgBins

(***************************************************************************)
(* ThreadedSparseMatrix (inc/matrix/threaded_sparse_matrix.hpp): one       *)
(* gcBins x cvgBins grid per thread and the merged grid.                   *)
(***************************************************************************)
ThreadIds == 0..(MaxThreads - 1)
ZeroGrid == [x \in 0..(gcBins - 1) |-> [y \in 0..(cvgBins - 1) |-> 0]]

NoMatrix == [alloc |-> FALSE, tm |-> <<>>, final |-> ZeroGrid, maxVal |-> 0]

\* ThreadedSparseMatrix(gcBins, cvgBins, threads)
newThreadedSparseMatrix(nThreads) ==
    [alloc |-> TRUE, tm |-> [t \in 0..(nThreads - 1) |-> ZeroGrid],
     final |-> ZeroGrid, maxVal |-> 0]

RECURSIVE sumCell(_, _, _, _)
sumCell(tm, n, x, y) ==
    IF n = 0 THEN 0 ELSE tm[n - 1][x][y] + sumCell(tm, n - 1, x, y)

RECURSIVE sumRange(_, _)
sumRange(f, n) == IF n = 0 THEN 0 ELSE f[n - 1] + sumRange(f, n - 1)

gridSum(g) == sumRange([x \in 0..(gcBins - 1) |-> sumRange(g[x], cvgBins)], gcBins)

gridMax(g) ==
    CHOOSE m \in {g[x][y] : x \in 0..(gcBins - 1), y \in 0..(cvgBins - 1)} :
        \A x \in 0..(gcBins - 1), y \in 0..(cvgBins - 1) : g[x][y] <= m

\* mergeThreadedMatricies(): the element-wise sum of the thread grids and
\* its largest cell.
mergeThreadedMatricies(mx, nThreads) ==
    LET merged == [x \in 0..(gcBins - 1) |->
                      [y \in 0..(cvgBins - 1) |-> sumCell(mx.tm, nThreads, x, y)]]
    IN [mx EXCEPT !.final = merged, !.maxVal = gridMax(merged)]

(***************************************************************************)
(* State.                                                                  *)
(***************************************************************************)
VARIABLES
    file,             \* the sequence file: record j (0-based) is named j
    threads, median, cvgLogscale, noCountStats, canonical, hash,
    bucket_size,
    pc,               \* where the main thread is
    th,               \* loop variable i of analyseBatch
    reader,           \* records consumed from the file
    offset, recordsInBatch, names, seqs,
    counts, coverages, gcs, lengths, nonZero, percentNonZero,
    contamination_mx,
    thr,              \* the worker threads of the batch
    count_path_stream, cvg_gc_stream,
    contamination_mx_stream,   \* the matrix files written by save()
    calls,            \* per worker, the indices it called processSeq with
    writers,          \* per result slot, the workers that wrote it
    tmWriters,        \* per thread grid, the workers that incremented it
    lookups,          \* the getCount calls made for the batch
    incs,             \* per result slot, the incTM calls made for it
    stat              \* counters of what the run has done

vars == <<file, threads, median, cvgLogscale, noCountStats, canonical, hash,
          bucket_size, pc, th, reader, offset, recordsInBatch, names, seqs,
          counts, coverages, gcs, lengths, nonZero, percentNonZero,
          contamination_mx, thr, count_path_stream, cvg_gc_stream,
          contamination_mx_stream,
          calls, writers, tmWriters, lookups, incs, stat>>

config == <<file, threads, median, cvgLogscale, noCountStats, canonical, hash>>
batchVars == <<counts, coverages, gcs, lengths, nonZero, percentNonZero>>
streams == <<count_path_stream, cvg_gc_stream, contamination_mx_stream>>

\* Base strings of the whole-run specification: too short for a k-mer
\* ("A", and "N" with no base that is not N), one window and all GC ("GG"),
\* two windows with different counts ("AGG").
SeqPool == {<<"A">>, <<"N">>, <<"G", "G">>, <<"A", "G", "G">>}

\* The count index of the whole-run specification: k-mers that start
\* with A were counted 20 times, the others never.
HashPool == {[m \in HashKeys(FALSE) |-> IF m[1] = "A" THEN 20 ELSE 0]}

NoThreads == [t \in ThreadIds |-> [st |-> "none", i |-> 0]]
ClosedStream == [state |-> "unopened", header |-> FALSE, fixed |-> FALSE, rows |-> <<>>]

InitRun ==
    /\ bucket_size = 0
    /\ pc = "execute"
    /\ th = 0
    /\ reader = 0
    /\ offset = 0
    /\ recordsInBatch = 0
    /\ names = <<>>
    /\ seqs = <<>>
    /\ counts = <<>>
    /\ coverages = <<>>
    /\ gcs = <<>>
    /\ lengths = <<>>
    /\ nonZero = <<>>
    /\ percentNonZero = <<>>
    /\ contamination_mx = NoMatrix
    /\ thr = NoThreads
    /\ count_path_stream = ClosedStream
    /\ cvg_gc_stream = ClosedStream
    /\ contamination_mx_stream = <<>>
    /\ calls = [t \in ThreadIds |-> <<>>]
    /\ writers = <<>>
    /\ tmWriters = [t \in ThreadIds |-> {}]
    /\ lookups = {}
    /\ incs = <<>>
    /\ stat = [created |-> 0, spawned |-> 0, joined |-> 0, merges |-> 0,
               batches |-> 0]

\* Sect::Sect and the setters called by main.
Init ==
    /\ file \in UNION {[1..n -> SeqPool] : n \in 0..MaxRecords}
    /\ threads \in 1..MaxThreads
    /\ median \in BOOLEAN
    /\ cvgLogscale \in BOOLEAN
    /\ noCountStats \in BOOLEAN
    /\ canonical = FALSE
    /\ hash \in HashPool
    /\ InitRun

(***************************************************************************)
(* The main thread: execute, processSeqFile, merge.                        *)
(***************************************************************************)
\* Mutant of execute: the matrix is built before the checks are made.
executeAllocFirst ==
    /\ pc = "execute"
    /\ \E err \in {"none", "seqFile", "input", "outputDir"} :
        /\ bucket_size' = IF err = "seqFile" THEN bucket_size
                          ELSE BATCH_SIZE \div threads
        /\ contamination_mx' = newThreadedSparseMatrix(threads)
        /\ pc' = IF err = "none" THEN "processSeqFile" ELSE "failed"
    /\ UNCHANGED <<config, th, reader, offset, recordsInBatch, names, seqs,
                   batchVars, thr, streams, calls, writers, tmWriters,
                   lookups, incs, stat>>

\* execute() up to the construction of the matrix: the checks that throw
\* (sequence file missing, invalid input, output directory not creatable)
\* come before anything else is done.
execute ==
    /\ pc = "execute"
    /\ \E err \in {"none", "seqFile", "input", "outputDir"} :
        /\ bucket_size' = IF err = "seqFile" THEN bucket_size
                          ELSE BATCH_SIZE \div threads
        /\ IF err = "none"
           THEN /\ contamination_mx' = newThreadedSparseMatrix(threads)
                /\ pc' = "processSeqFile"
           ELSE /\ contamination_mx' = contamination_mx
                /\ pc' = "failed"
    /\ UNCHANGED <<config, th, reader, offset, recordsInBatch, names, seqs,
                   batchVars, thr, streams, calls, writers, tmWriters,
                   lookups, incs, stat>>

\* processSeqFile() before its loop: resets the batch counters, opens the
\* reader and the output streams, writes the header of the stats table.
processSeqFile ==
    /\ pc = "processSeqFile"
    /\ offset' = 0
    /\ recordsInBatch' = 0
    /\ names' = <<>>
    /\ seqs' = <<>>
    /\ count_path_stream' = IF noCountStats THEN count_path_stream
                            ELSE [count_path_stream EXCEPT !.state = "open"]
    /\ cvg_gc_stream' = [cvg_gc_stream EXCEPT !.state = "open", !.header = TRUE]
    /\ pc' = "loop"
    /\ UNCHANGED <<config, contamination_mx_stream, bucket_size, th, reader, batchVars, contamination_mx,
                   thr, calls, writers, tmWriters,
                   lookups, incs, stat>>

\* while (!atEnd(reader)) { clear; readRecords(names, seqs, reader, BATCH_SIZE);
\* recordsInBatch = length(names);
\* Mutant of readRecords: the loop tests the end of the file after its
\* body, so the body runs once on a file with no record.
readRecordsDoWhile ==
    /\ pc = "loop"
    /\ reader < Len(file) \/ stat.batches = 0
    /\ LET n == Min(BATCH_SIZE, Len(file) - reader) IN
        /\ names' = [i \in 1..n |-> reader + i - 1]
        /\ seqs' = [i \in 1..n |-> file[reader + i]]
        /\ recordsInBatch' = n
        /\ reader' = reader + n
        /\ writers' = [i \in 1..n |-> {}]
        /\ incs' = [i \in 1..n |-> {}]
    /\ calls' = [t \in ThreadIds |-> <<>>]
    /\ lookups' = {}
    /\ stat' = [stat EXCEPT !.batches = @ + 1]
    /\ pc' = "create"
    /\ UNCHANGED <<config, bucket_size, th, offset, batchVars, contamination_mx,
                   thr, streams, tmWriters>>

readRecords ==
    /\ pc = "loop"
    /\ reader < Len(file)
    /\ LET n == Min(BATCH_SIZE, Len(file) - reader) IN
        /\ names' = [i \in 1..n |-> reader + i - 1]
        /\ seqs' = [i \in 1..n |-> file[reader + i]]
        /\ recordsInBatch' = n
        /\ reader' = reader + n
        /\ writers' = [i \in 1..n |-> {}]
        /\ incs' = [i \in 1..n |-> {}]
    /\ calls' = [t \in ThreadIds |-> <<>>]
    /\ lookups' = {}
    /\ stat' = [stat EXCEPT !.batches = @ + 1]
    /\ pc' = "create"
    /\ UNCHANGED <<config, bucket_size, th, offset, batchVars, contamination_mx,
                   thr, streams, tmWriters>>

\* Mutant of createBatchVars: the thread grids are rebuilt for every batch.
createBatchVarsRealloc ==
    /\ pc = "create"
    /\ counts' = [i \in 1..recordsInBatch |-> NullPtr]
    /\ coverages' = [i \in 1..recordsInBatch |-> Dbl(0, 1)]
    /\ gcs' = [i \in 1..recordsInBatch |-> Dbl(0, 1)]
    /\ lengths' = [i \in 1..recordsInBatch |-> 0]
    /\ nonZero' = [i \in 1..recordsInBatch |-> 0]
    /\ percentNonZero' = [i \in 1..recordsInBatch |-> Dbl(0, 1)]
    /\ contamination_mx' = newThreadedSparseMatrix(threads)
    /\ stat' = [stat EXCEPT !.created = @ + 1]
    /\ th' = 0
    /\ pc' = "spawn"
    /\ UNCHANGED <<config, bucket_size, reader, offset, recordsInBatch, names,
                   seqs, thr, streams, calls, writers, tmWriters, lookups, incs>>

createBatchVars ==
    /\ pc = "create"
    /\ counts' = [i \in 1..recordsInBatch |-> NullPtr]
    /\ coverages' = [i \in 1..recordsInBatch |-> Dbl(0, 1)]
    /\ gcs' = [i \in 1..recordsInBatch |-> Dbl(0, 1)]
    /\ lengths' = [i \in 1..recordsInBatch |-> 0]
    /\ nonZero' = [i \in 1..recordsInBatch |-> 0]
    /\ percentNonZero' = [i \in 1..recordsInBatch |-> Dbl(0, 1)]
    /\ stat' = [stat EXCEPT !.created = @ + 1]
    /\ th' = 0
    /\ pc' = "spawn"
    /\ UNCHANGED <<config, bucket_size, reader, offset, recordsInBatch, names,
                   seqs, contamination_mx, thr, streams, calls, writers,
                   tmWriters,
                   lookups, incs>>

\* analyseBatch(): thread t[threads]; t[i] = thread(analyseBatchSlice, i)
analyseBatchSpawn ==
    /\ pc = "spawn"
    /\ thr' = [thr EXCEPT ![th] = [st |-> "start", i |-> 0]]
    /\ stat' = [stat EXCEPT !.spawned = @ + 1]
    /\ IF th + 1 < threads
       THEN th' = th + 1 /\ pc' = "spawn"
       ELSE th' = 0 /\ pc' = "join"
    /\ UNCHANGED <<config, bucket_size, reader, offset, recordsInBatch, names,
                   seqs, batchVars, contamination_mx, streams, calls, writers, tmWriters,
                   lookups, incs>>

\* Mutant of analyseBatchJoin: the thread is detached, not waited for.
analyseBatchDetach ==
    /\ pc = "join"
    /\ stat' = [stat EXCEPT !.joined = @ + 1]
    /\ IF th + 1 < threads
       THEN th' = th + 1 /\ pc' = "join"
       ELSE th' = 0 /\ pc' = IF noCountStats THEN "printStat" ELSE "printCounts"
    /\ UNCHANGED <<config, bucket_size, reader, offset, recordsInBatch, names,
                   seqs, batchVars, contamination_mx, thr, streams, calls,
                   writers, tmWriters,
                   lookups, incs>>

\* analyseBatch(): t[i].join(), which returns once thread i has finished.
\* After the last join analyseBatch returns and the array of (joined)
\* thread objects goes out of scope.
analyseBatchJoin ==
    /\ pc = "join"
    /\ thr[th].st = "done"
    /\ LET joined == [thr EXCEPT ![th].st = "joined"] IN
       thr' = IF th + 1 < threads THEN joined
              ELSE [t \in ThreadIds |->
                       IF joined[t].st = "joined" THEN [st |-> "none", i |-> 0]
                       ELSE joined[t]]
    /\ stat' = [stat EXCEPT !.joined = @ + 1]
    /\ IF th + 1 < threads
       THEN th' = th + 1 /\ pc' = "join"
       ELSE th' = 0 /\ pc' = IF noCountStats THEN "printStat" ELSE "printCounts"
    /\ UNCHANGED <<config, bucket_size, reader, offset, recordsInBatch, names,
                   seqs, batchVars, contamination_mx, streams, calls, writers, tmWriters,
                   lookups, incs>>

\* Mutant of countsLine: no "0" for a missing or empty vector.
countsLineRaw(ptr) == ptr.v

\* The line printCounts writes under ">name": the counts separated by
\* spaces, or "0" when there is no vector or an empty one.
countsLine(ptr) == IF ~ptr.null /\ ptr.v # <<>> THEN ptr.v ELSE <<0>>

\* Mutant of printCounts: the stats table of the batch is skipped.
printCountsSkipStats ==
    /\ pc = "printCounts"
    /\ count_path_stream' =
           [count_path_stream EXCEPT !.rows = @ \o
               [i \in 1..recordsInBatch |->
                   [name |-> names[i], line |-> countsLine(counts[i])]]]
    /\ pc' = "destroy"
    /\ UNCHANGED <<config, contamination_mx_stream, bucket_size, th, reader,
                   offset, recordsInBatch, names, seqs, batchVars,
                   contamination_mx, thr, cvg_gc_stream, calls, writers,
                   tmWriters, lookups, incs, stat>>

printCounts ==
    /\ pc = "printCounts"
    /\ count_path_stream' =
           [count_path_stream EXCEPT !.rows = @ \o
               [i \in 1..recordsInBatch |->
                   [name |-> names[i], line |-> countsLine(counts[i])]]]
    /\ pc' = "printStat"
    /\ UNCHANGED <<config, contamination_mx_stream, bucket_size, th, reader, offset, recordsInBatch,
                   names, seqs, batchVars, contamination_mx, thr, cvg_gc_stream,
                   calls, writers, tmWriters,
                   lookups, incs, stat>>

\* Mutant of printStatTable: the rows of a batch are written last to first.
printStatTableReversed ==
    /\ pc = "printStat"
    /\ cvg_gc_stream' =
           [cvg_gc_stream EXCEPT
               !.rows = @ \o
                   [k \in 1..recordsInBatch |->
                       LET i == recordsInBatch + 1 - k IN
                       [name |-> names[i], coverage |-> coverages[i],
                        gc |-> gcs[i], length |-> lengths[i],
                        nonZero |-> nonZero[i],
                        percentNonZero |-> percentNonZero[i],
                        fixed |-> cvg_gc_stream.fixed \/ k > 1]],
               !.fixed = @ \/ recordsInBatch > 0]
    /\ pc' = "destroy"
    /\ UNCHANGED <<config, contamination_mx_stream, bucket_size, th, reader, offset, recordsInBatch,
                   names, seqs, batchVars, contamination_mx, thr,
                   count_path_stream, calls, writers, tmWriters,
                   lookups, incs, stat>>

\* One row per record.  std::fixed stays set on the stream once the first
\* row has been written: `fixed` tells how coverage and gc% were formatted.
printStatTable ==
    /\ pc = "printStat"
    /\ cvg_gc_stream' =
           [cvg_gc_stream EXCEPT
               !.rows = @ \o
                   [i \in 1..recordsInBatch |->
                       [name |-> names[i], coverage |-> coverages[i],
                        gc |-> gcs[i], length |-> lengths[i],
                        nonZero |-> nonZero[i],
                        percentNonZero |-> percentNonZero[i],
                        fixed |-> cvg_gc_stream.fixed \/ i > 1]],
               !.fixed = @ \/ recordsInBatch > 0]
    /\ pc' = "destroy"
    /\ UNCHANGED <<config, contamination_mx_stream, bucket_size, th, reader, offset, recordsInBatch,
                   names, seqs, batchVars, contamination_mx, thr,
                   count_path_stream, calls, writers, tmWriters,
                   lookups, incs, stat>>

\* The first index whose counts pointer is null, or 0 when none is.
firstNull(cs) ==
    IF \E i \in 1..Len(cs) : cs[i].null
    THEN CHOOSE i \in 1..Len(cs) : cs[i].null /\ \A j \in 1..(i - 1) : ~cs[j].null
    ELSE 0

\* destroyBatchVars(), then offset += recordsInBatch.  counts->at(i)->clear()
\* dereferences the pointer of every slot; the slot of a sequence shorter
\* than the k-mer still holds the null pointer createBatchVars put there.
\* The null dereference is undefined: the process dies there (the vectors
\* before that slot cleared), or the call has no effect and the loop goes on.
destroyBatchVars ==
    /\ pc = "destroy"
    /\ \/ /\ firstNull(counts) # 0
          /\ counts' = [i \in 1..Len(counts) |->
                           IF i < firstNull(counts) THEN PtrTo(<<>>) ELSE counts[i]]
          /\ pc' = "crashed_destroyBatchVars"
          /\ UNCHANGED <<coverages, gcs, lengths, nonZero, percentNonZero, offset>>
       \/ /\ counts' = <<>>
          /\ coverages' = <<>>
          /\ gcs' = <<>>
          /\ lengths' = <<>>
          /\ nonZero' = <<>>
          /\ percentNonZero' = <<>>
          /\ offset' = offset + recordsInBatch
          /\ pc' = "loop"
    /\ UNCHANGED <<config, bucket_size, th, reader, recordsInBatch, names, seqs,
                   contamination_mx, thr, streams, calls, writers, tmWriters,
                   lookups, incs, stat>>

\* Mutant of closeStreams: the loop is left whether or not records remain.
closeStreamsEarly ==
    /\ pc = "loop"
    /\ count_path_stream' = IF noCountStats THEN count_path_stream
                            ELSE [count_path_stream EXCEPT !.state = "closed"]
    /\ cvg_gc_stream' = [cvg_gc_stream EXCEPT !.state = "closed"]
    /\ pc' = "merge"
    /\ UNCHANGED <<config, contamination_mx_stream, bucket_size, th, reader, offset, recordsInBatch,
                   names, seqs, batchVars, contamination_mx, thr, calls,
                   writers, tmWriters,
                   lookups, incs, stat>>

\* The loop of processSeqFile ends at the end of the file: the streams are
\* closed and execute() goes on to merge().
closeStreams ==
    /\ pc = "loop"
    /\ reader = Len(file)
    /\ count_path_stream' = IF noCountStats THEN count_path_stream
                            ELSE [count_path_stream EXCEPT !.state = "closed"]
    /\ cvg_gc_stream' = [cvg_gc_stream EXCEPT !.state = "closed"]
    /\ pc' = "merge"
    /\ UNCHANGED <<config, contamination_mx_stream, bucket_size, th, reader, offset, recordsInBatch,
                   names, seqs, batchVars, contamination_mx, thr, calls,
                   writers, tmWriters,
                   lookups, incs, stat>>

\* Mutant of merge: the thread grids are not merged.
mergeSkipped ==
    /\ pc = "merge"
    /\ stat' = [stat EXCEPT !.merges = @ + 1]
    /\ pc' = "done"
    /\ UNCHANGED <<config, bucket_size, th, reader, offset, recordsInBatch,
                   names, seqs, batchVars, contamination_mx, thr, streams, calls,
                   writers, tmWriters, lookups, incs>>

\* merge(), after which execute() and main() return.
merge ==
    /\ pc = "merge"
    /\ contamination_mx' = mergeThreadedMatricies(contamination_mx, threads)
    /\ stat' = [stat EXCEPT !.merges = @ + 1]
    /\ pc' = "done"
    /\ UNCHANGED <<config, bucket_size, th, reader, offset, recordsInBatch,
                   names, seqs, batchVars, thr, streams, calls, writers, tmWriters,
                   lookups, incs>>

\* printContaminationMatrix(out, seqFile): the metadata (columns, rows,
\* mx.getMaxVal(), transpose "0") and the grid of getFinalMatrix().
printContaminationMatrix(mx) ==
    [nbColumns |-> gcBins, nbRows |-> cvgBins, maxVal |-> mx.maxVal,
     transpose |-> 0, grid |-> mx.final]

\* save(): writes <prefix>-contamination.mx.  A caller of the class calls it
\* once execute() has returned; main() does not call it.
save ==
    /\ pc = "done"
    /\ contamination_mx_stream' =
           Append(contamination_mx_stream, printContaminationMatrix(contamination_mx))
    /\ pc' = "saved"
    /\ UNCHANGED <<config, bucket_size, th, reader, offset, recordsInBatch,
                   names, seqs, batchVars, contamination_mx, thr,
                   count_path_stream, cvg_gc_stream, calls, writers, tmWriters,
                   lookups, incs, stat>>

(***************************************************************************)
(* The worker threads.                                                     *)
(***************************************************************************)
\* The process has ended: main returned, execute threw, or it died.
Crashed == pc \in {"crashed_incTM", "crashed_destroyBatchVars"}
Ended == pc \in {"done", "saved", "failed"} \/ Crashed

\* A spawned worker can take a step as long as the process is alive.
Running == ~Ended

\* incTM(th_id, x, y, val): adds val to cell (x, y) of the grid of thread
\* th_id.  A cell outside the grid is no cell of any grid: the write is
\* lost or the process dies.
incTM(th_id, x, y, val) ==
    IF x < gcBins /\ y < cvgBins
    THEN /\ contamination_mx' =
                [contamination_mx EXCEPT !.tm[th_id][x][y] = @ + val]
         /\ pc' = pc
    ELSE /\ contamination_mx' = contamination_mx
         /\ pc' \in {pc, "crashed_incTM"}

\* Mutant of matrixOf: every worker increments the grid of thread 0.
matrixOfZero(th_id) == 0

\* The grid processSeq increments: contamination_mx->incTM(th_id, ...).
matrixOf(th_id) == th_id

processSeq(index, th_id) ==
    LET r == seqStats(seqs[index + 1], hash, canonical, median) IN
    /\ counts' = IF r.tooShort THEN counts
                 ELSE [counts EXCEPT ![index + 1] = r.seqCounts]
    /\ coverages' = IF r.tooShort THEN coverages
                    ELSE [coverages EXCEPT ![index + 1] = r.average_cvg]
    /\ lengths' = [lengths EXCEPT ![index + 1] = r.seqLength]
    /\ nonZero' = [nonZero EXCEPT ![index + 1] = r.nbNonZero]
    /\ percentNonZero' =
           [percentNonZero EXCEPT ![index + 1] = Dbl(r.nbNonZero, r.seqLength)]
    /\ gcs' = [gcs EXCEPT ![index + 1] = r.gc_perc]
    /\ \E x \in xBins(r.gc_perc), y \in yBins(r.average_cvg, cvgLogscale) :
           /\ incTM(matrixOf(th_id), x, y, r.seqLength)
           /\ tmWriters' = IF x < gcBins /\ y < cvgBins
                            THEN [tmWriters EXCEPT ![matrixOf(th_id)] = @ \cup {th_id}]
                            ELSE tmWriters
           /\ incs' = [incs EXCEPT ![index + 1] = @ \cup
                           {[th_id |-> matrixOf(th_id), x |-> x, y |-> y,
                             val |-> r.seqLength]}]
    /\ lookups' = lookups \cup
                     {[index |-> index, off |-> l.off, mer |-> l.mer] : l \in r.looked}
    /\ writers' = [writers EXCEPT ![index + 1] = @ \cup {th_id}]
    /\ calls' = [calls EXCEPT ![th_id] = Append(@, index)]

\* Mutant of firstIndex: every worker starts at index 0.
firstIndexZero(th_id) == 0

\* Mutant of firstIndex: a worker past the end of the batch wraps around.
firstIndexWrapped(th_id) == th_id % recordsInBatch

\* size_t start = th_id
firstIndex(th_id) == th_id

\* analyseBatchSlice(th_id): returns at once when there are more threads
\* than BATCH_SIZE and no record for this one, else runs processInterlaced.
analyseBatchSlice(t) ==
    /\ Running
    /\ thr[t].st = "start"
    /\ thr' = IF bucket_size < 1 /\ t >= recordsInBatch
              THEN [thr EXCEPT ![t].st = "done"]
              ELSE [thr EXCEPT ![t] = [st |-> "loop", i |-> firstIndex(t)]]
    /\ UNCHANGED <<config, bucket_size, pc, th, reader, offset, recordsInBatch,
                   names, seqs, batchVars, contamination_mx, streams, calls,
                   writers, tmWriters,
                   lookups, incs, stat>>

\* Mutant of nextIndex: the loop steps by one.
nextIndexByOne(i) == i + 1

\* for (size_t i = start; i < end; i += threads)
nextIndex(i) == i + threads

\* One turn of the loop of processInterlaced(th_id): processSeq(i, th_id),
\* or the end of the loop and of the thread.
processInterlaced(t) ==
    /\ Running
    /\ thr[t].st = "loop"
    /\ IF thr[t].i < recordsInBatch
       THEN /\ processSeq(thr[t].i, t)
            /\ thr' = [thr EXCEPT ![t].i = nextIndex(@)]
       ELSE /\ thr' = [thr EXCEPT ![t].st = "done"]
            /\ UNCHANGED <<batchVars, contamination_mx, pc, calls, writers,
                           tmWriters, lookups, incs>>
    /\ UNCHANGED <<config, bucket_size, th, reader, offset, recordsInBatch,
                   names, seqs, streams, stat>>

Next ==
    \/ execute
    \/ processSeqFile
    \/ readRecords
    \/ createBatchVars
    \/ analyseBatchSpawn
    \/ analyseBatchJoin
    \/ printCounts
    \/ printStatTable
    \/ destroyBatchVars
    \/ closeStreams
    \/ merge
    \/ \E t \in ThreadIds : analyseBatchSlice(t)
    \/ \E t \in ThreadIds : processInterlaced(t)

Spec == Init /\ [][Next]_vars

(***************************************************************************)
(* The class used as a library: a Sect built with the constructor's        *)
(* defaults (median, linear scale, count stats) and setThreads, on which   *)
(* the caller runs execute() and then save().                              *)
(***************************************************************************)
InitApi ==
    /\ file \in UNION {[1..n -> SeqPool] : n \in 0..MaxRecords}
    /\ threads \in 1..MaxThreads
    /\ median = TRUE
    /\ cvgLogscale = FALSE
    /\ noCountStats = FALSE
    /\ canonical = FALSE
    /\ hash \in HashPool
    /\ InitRun

NextApi ==
    \/ Next
    \/ save

ApiSpec == InitApi /\ [][NextApi]_vars

\* The steps of the main thread: the statements of execute() in sequence.
mainThread ==
    \/ execute
    \/ processSeqFile
    \/ readRecords
    \/ createBatchVars
    \/ analyseBatchSpawn
    \/ analyseBatchJoin
    \/ printCounts
    \/ printStatTable
    \/ destroyBatchVars
    \/ closeStreams
    \/ merge

\* The steps of the worker thread th_id: the body handed to std::thread.
workerThread(th_id) == analyseBatchSlice(th_id) \/ processInterlaced(th_id)

\* A run with the constructor's defaults (median, linear scale, count
\* stats) under a fair scheduler: the main thread and every spawned
\* worker, each a sequential piece of code with no lock and no wait but
\* join(), takes its next step whenever that step stays possible.
FairSpec ==
    /\ InitApi
    /\ [][Next]_vars
    /\ WF_vars(mainThread)
    /\ \A t \in ThreadIds : WF_vars(workerThread(t))

(***************************************************************************)
(* The single-sequence specification: one worker is about to call          *)
(* processSeq on the only record of a batch, for every base string up to   *)
(* MaxSeqLen, every count index and every mode.                            *)
(***************************************************************************)
\* The state in which worker 0, the only thread, enters the loop of
\* processInterlaced for a batch that holds the only record of the file.
InitWorker ==
    /\ threads = 1
    /\ noCountStats = FALSE
    /\ bucket_size = BATCH_SIZE
    /\ pc = "join"
    /\ th = 0
    /\ reader = 1
    /\ offset = 0
    /\ recordsInBatch = 1
    /\ names = <<0>>
    /\ seqs = file
    /\ counts = <<NullPtr>>
    /\ coverages = <<Dbl(0, 1)>>
    /\ gcs = <<Dbl(0, 1)>>
    /\ lengths = <<0>>
    /\ nonZero = <<0>>
    /\ percentNonZero = <<Dbl(0, 1)>>
    /\ contamination_mx = newThreadedSparseMatrix(1)
    /\ thr = [NoThreads EXCEPT ![0] = [st |-> "loop", i |-> 0]]
    /\ count_path_stream = [ClosedStream EXCEPT !.state = "open"]
    /\ cvg_gc_stream = [ClosedStream EXCEPT !.state = "open", !.header = TRUE]
    /\ contamination_mx_stream = <<>>
    /\ calls = [t \in ThreadIds |-> <<>>]
    /\ writers = <<{}>>
    /\ tmWriters = [t \in ThreadIds |-> {}]
    /\ lookups = {}
    /\ incs = <<{}>>
    /\ stat = [created |-> 1, spawned |-> 1, joined |-> 0, merges |-> 0,
               batches |-> 1]

InitSeq ==
    /\ file \in {<<s>> : s \in Strings(MaxSeqLen)}
    /\ median \in BOOLEAN
    /\ cvgLogscale \in BOOLEAN
    /\ canonical \in BOOLEAN
    /\ hash \in [HashKeys(canonical) -> CountVals]
    /\ InitWorker

NextSeq == \E t \in ThreadIds : processInterlaced(t)

SeqSpec == InitSeq /\ [][NextSeq]_vars

(***************************************************************************)
(* The worked-examples specification: processSeq on base strings over the  *)
(* whole alphabet, both cases, with count indexes that give the windows    *)
(* of a string distinct counts, small and large.                           *)
(***************************************************************************)
Str(a, b, c, d) == <<a, b, c, d>>

ExamplePool ==
    {Str("G", "G", "C", "C"), Str("A", "T", "A", "T"), Str("G", "G", "N", "N"),
     Str("A", "A", "G", "G"), Str("a", "c", "g", "t"), Str("G", "c", "n", "A"),
     Str("N", "n", "N", "n"), Str("A", "A", "G", "G") \o <<"A">>,
     Str("A", "G", "C", "T") \o <<"A">>, <<"G", "C", "N">>, <<"A", "G">>,
     <<"c">>, <<>>}

AllMers == [1..merLen -> {"A", "C", "G", "T"}]

\* The count of a k-mer depends on its first two bases.
ExampleCount(tbl, m) ==
    LET p == <<m[1], m[2]>> IN
    CASE tbl = "531"   -> (CASE p = <<"A", "A">> -> 5 [] p = <<"A", "G">> -> 1
                             [] p = <<"G", "G">> -> 3 [] OTHER -> 0)
      [] tbl = "1234"  -> (CASE p = <<"A", "A">> -> 1 [] p = <<"A", "G">> -> 2
                             [] p = <<"G", "G">> -> 3 [] p = <<"G", "A">> -> 4
                             [] OTHER -> 7)
      [] tbl = "large" -> (CASE p = <<"A", "A">> -> 300 [] p = <<"G", "G">> -> 35
                             [] OTHER -> 250)

ExampleHashes ==
    {[m \in AllMers |-> ExampleCount(tbl, m)] : tbl \in {"531", "1234", "large"}}

InitExample ==
    /\ file \in {<<s>> : s \in ExamplePool}
    /\ median \in BOOLEAN
    /\ cvgLogscale \in BOOLEAN
    /\ canonical \in BOOLEAN
    /\ hash \in ExampleHashes
    /\ InitWorker

ExampleSpec == InitExample /\ [][NextSeq]_vars

(***************************************************************************)
(* The legacy routine of sect.hpp: the same per-sequence computation with  *)
(* a test for 'N' in the window and getThreadMatrix(th_id)->inc, run from  *)
(* the same state as the current one on upper-case base strings.           *)
(***************************************************************************)
\* jfh->getCount(mer): the helper holds the index and looks the k-mer up
\* on the strand the index was built with.
jfhGetCount(h, mer, canon) == h[IF canon THEN Canonical(mer) ELSE mer]

\* merstr.find("N") != string::npos
findN(merstr) == \E i \in 1..Len(merstr) : merstr[i] = "N"

\* The window loop of the legacy processSeq.
RECURSIVE legacyCountWindows(_, _, _, _, _, _, _, _)
legacyCountWindows(seq, h, canon, i, nbCounts, seqCounts, sum, looked) ==
    IF i >= nbCounts
    THEN [seqCounts |-> seqCounts, sum |-> sum, looked |-> looked]
    ELSE LET merstr == substr(seq, i, merLen) IN
         IF findN(merstr)
         THEN legacyCountWindows(seq, h, canon, i + 1, nbCounts,
                                 [seqCounts EXCEPT ![i + 1] = 0], sum, looked)
         ELSE LET count == jfhGetCount(h, mer_dna(merstr), canon) IN
              legacyCountWindows(seq, h, canon, i + 1, nbCounts,
                                 [seqCounts EXCEPT ![i + 1] = count], sum + count,
                                 looked \cup {[off |-> i, mer |-> mer_dna(merstr)]})

\* Everything the legacy processSeq derives from one sequence before it
\* bins it: the count vector, average_cvg and gc_perc.
legacySeqStats(seq, h, canon, med) ==
    LET seqLength == Len(seq)
        nbCounts  == seqLength - merLen + 1
        gs == CountChars(seq, {"G", "g"})
        cs == CountChars(seq, {"C", "c"})
        ns == CountChars(seq, {"N", "n"})
        tail == [seqLength |-> seqLength, gc_perc |-> Dbl(gs + cs, seqLength - ns)]
    IN IF seqLength < merLen
       THEN [tooShort |-> TRUE, seqCounts |-> NullPtr, looked |-> {},
             average_cvg |-> Dbl(0, 1)] @@ tail
       ELSE LET w == legacyCountWindows(seq, h, canon, 0, nbCounts,
                                        [i \in 1..nbCounts |-> 0], 0, {})
            IN [tooShort |-> FALSE, seqCounts |-> PtrTo(w.seqCounts),
                looked |-> w.looked,
                average_cvg |->
                    IF med
                    THEN Dbl(sort(w.seqCounts)[(Len(w.seqCounts) \div 2) + 1], 1)
                    ELSE Dbl(w.sum, nbCounts)] @@ tail

\* uint16_t x = gc_perc * args.gc_bins, undefined for NaN.
legacyXBins(gc_perc) ==
    IF gc_perc.den = 0 THEN 0..gcBins
    ELSE {(gc_perc.num * gcBins) \div gc_perc.den}

\* uint16_t y = compressed_cvg >= args.cvg_bins ? args.cvg_bins - 1 :
\* compressed_cvg, with compressed_cvg = log10(average_cvg) * (cvg_bins / 5.0)
\* in log scale (undefined at or below -1) and average_cvg * 0.1 in linear.
legacyYBins(average_cvg, logscale) ==
    LET n == average_cvg.num
        d == average_cvg.den
        compressed == n \div (CvgCompress * d)
    IN IF ~logscale
       THEN {IF compressed >= cvgBins THEN cvgBins - 1 ELSE compressed}
       ELSE IF n = 0 THEN 0..cvgBins
       ELSE IF n >= d
            THEN {IF logBin(n, d, 0) >= cvgBins THEN cvgBins - 1
                  ELSE logBin(n, d, 0)}
       ELSE IF Pow(n, cvgBins) * Pow(10, LogCvgMax) > Pow(d, cvgBins) THEN {0}
       ELSE 0..cvgBins

\* contamination_mx->getThreadMatrix(th_id)->inc(x, y, val): adds val to
\* cell (x, y) of the grid of thread th_id; outside the grid the write is
\* lost or the process dies.
getThreadMatrixInc(th_id, x, y, val) ==
    IF x < gcBins /\ y < cvgBins
    THEN /\ contamination_mx' =
                [contamination_mx EXCEPT !.tm[th_id][x][y] = @ + val]
         /\ pc' = pc
    ELSE /\ contamination_mx' = contamination_mx
         /\ pc' \in {pc, "crashed_incTM"}

\* The legacy processSeq(index, th_id): no non-zero-window counter.
legacyProcessSeq(index, th_id) ==
    LET r == legacySeqStats(seqs[index + 1], hash, canonical, median) IN
    /\ counts' = IF r.tooShort THEN counts
                 ELSE [counts EXCEPT ![index + 1] = r.seqCounts]
    /\ coverages' = IF r.tooShort THEN coverages
                    ELSE [coverages EXCEPT ![index + 1] = r.average_cvg]
    /\ lengths' = [lengths EXCEPT ![index + 1] = r.seqLength]
    /\ gcs' = [gcs EXCEPT ![index + 1] = r.gc_perc]
    /\ \E x \in legacyXBins(r.gc_perc),
          y \in legacyYBins(r.average_cvg, cvgLogscale) :
           /\ getThreadMatrixInc(th_id, x, y, r.seqLength)
           /\ tmWriters' = IF x < gcBins /\ y < cvgBins
                            THEN [tmWriters EXCEPT ![th_id] = @ \cup {th_id}]
                            ELSE tmWriters
           /\ incs' = [incs EXCEPT ![index + 1] = @ \cup
                           {[th_id |-> th_id, x |-> x, y |-> y,
                             val |-> r.seqLength]}]
    /\ lookups' = lookups \cup
                     {[index |-> index, off |-> l.off, mer |-> l.mer] : l \in r.looked}
    /\ writers' = [writers EXCEPT ![index + 1] = @ \cup {th_id}]
    /\ calls' = [calls EXCEPT ![th_id] = Append(@, index)]
    /\ UNCHANGED <<nonZero, percentNonZero>>

\* One turn of the loop of the legacy processInterlaced(th_id).
legacyProcessInterlaced(t) ==
    /\ Running
    /\ thr[t].st = "loop"
    /\ IF thr[t].i < recordsInBatch
       THEN /\ legacyProcessSeq(thr[t].i, t)
            /\ thr' = [thr EXCEPT ![t].i = @ + threads]
       ELSE /\ thr' = [thr EXCEPT ![t].st = "done"]
            /\ UNCHANGED <<batchVars, contamination_mx, pc, calls, writers,
                           tmWriters, lookups, incs>>
    /\ UNCHANGED <<config, bucket_size, th, reader, offset, recordsInBatch,
                   names, seqs, streams, stat>>

\* Base strings over the upper-case alphabet.
UpperStrings(n) == UNION {[1..k -> {"A", "C", "G", "T", "N"}] : k \in 0..n}

InitLegacy ==
    /\ file \in {<<s>> : s \in UpperStrings(MaxSeqLen)}
    /\ median \in BOOLEAN
    /\ cvgLogscale \in BOOLEAN
    /\ canonical \in BOOLEAN
    /\ hash \in ExampleHashes
    /\ InitWorker

\* The worker runs the one routine or the other.
NextLegacy ==
    \/ \E t \in ThreadIds : processInterlaced(t)
    \/ \E t \in ThreadIds : legacyProcessInterlaced(t)

LegacySpec == InitLegacy /\ [][NextLegacy]_vars

(***************************************************************************)
(* Properties.                                                             *)
(***************************************************************************)
Workers == 0..(threads - 1)
Reporting == pc \in {"printCounts", "printStat"}
NoWorkerAlive == \A t \in ThreadIds : thr[t].st = "none"
tooShort(seq) == Len(seq) < merLen
totalLength(f) == SumSeq([j \in 1..Len(f) |-> Len(f[j])])
statRows == cvg_gc_stream.rows
countRows == count_path_stream.rows
IsPrefix(a, b) == Len(a) <= Len(b) /\ a = SubSeq(b, 1, Len(a))

\* C1: once merge has run, the cells of the merged matrix sum to the total
\* length of the sequences of the file, too short ones included.
C1_MergedSumIsTotalLength ==
    stat.merges = 1 =>
        gridSum(contamination_mx.final) = totalLength(file)

\* The indices i < n with i mod threads = t, ascending.
interlaced(t, n) ==
    [k \in 1..Cardinality({i \in 0..(n - 1) : i % threads = t}) |->
        t + (k - 1) * threads]

C3_MergeOnceAfterLoop ==
    /\ stat.merges <= 1
    /\ (stat.merges = 1) <=> (pc = "done")
    /\ pc \in {"merge", "done"} =>
        /\ reader = Len(file)
        /\ NoWorkerAlive
        /\ stat.joined = stat.spawned
        /\ stat.spawned = threads * stat.batches
        /\ Len(statRows) = Len(file)

C3_Witness ==
    /\ pc = "done"
    /\ stat.merges = 1
    /\ stat.batches = 2
    /\ threads = 2

\* C4: when a row of the current batch is about to be, or has been,
\* written, exactly `threads` workers were spawned for each batch so far and
\* all of them have been joined: none is alive.
C4_ForkJoinPerBatch ==
    (\/ Reporting
     \/ Len(statRows) > reader - recordsInBatch
     \/ Len(countRows) > reader - recordsInBatch) =>
        /\ stat.spawned = threads * stat.batches
        /\ stat.joined = stat.spawned
        /\ NoWorkerAlive

C4_Witness ==
    /\ pc = "destroy"
    /\ threads = 3
    /\ stat.batches = 2
    /\ stat.joined = 6
    /\ Len(statRows) = 3

\* C5: no result slot is written by two workers, and the grid of thread g
\* is incremented by worker g only.
C5_DisjointWrites ==
    /\ \A i \in 1..Len(writers) : Cardinality(writers[i]) <= 1
    /\ \A g \in ThreadIds : tmWriters[g] \subseteq {g}

C5_Witness ==
    /\ threads = 2
    /\ thr[0].st = "loop"
    /\ thr[1].st = "loop"
    /\ writers = <<{0}, {1}>>
    /\ tmWriters[0] = {0}
    /\ tmWriters[1] = {1}

\* C6: the rows of the stats table, and the count records when they are
\* written, are those of the records of the file in file order; a run that
\* completes has written one for every record.
C6_OutputInInputOrder ==
    /\ \A j \in 1..Len(statRows) :
        /\ j <= Len(file)
        /\ statRows[j].name = j - 1
        /\ statRows[j].length = Len(file[j])
    /\ \A j \in 1..Len(countRows) :
        /\ j <= Len(file)
        /\ countRows[j].name = j - 1
        /\ countRows[j].line =
               countsLine(seqStats(file[j], hash, canonical, median).seqCounts)
    /\ pc = "done" =>
        /\ Len(statRows) = Len(file)
        /\ Len(countRows) = IF noCountStats THEN 0 ELSE Len(file)

C6_Witness ==
    /\ pc = "done"
    /\ threads = 3
    /\ ~noCountStats
    /\ Len(statRows) = 3
    /\ Len(countRows) = 3
    /\ Len(file[1]) # Len(file[2])

\* C7: when the reports of a batch are written, slot i of every batch
\* vector holds what processSeq derives from record i of this batch.
C7_ResultsMatchRecords ==
    Reporting =>
        /\ Len(counts) = recordsInBatch
        /\ Len(coverages) = recordsInBatch
        /\ Len(gcs) = recordsInBatch
        /\ Len(lengths) = recordsInBatch
        /\ Len(nonZero) = recordsInBatch
        /\ Len(percentNonZero) = recordsInBatch
        /\ \A i \in 1..recordsInBatch :
            LET r == seqStats(seqs[i], hash, canonical, median) IN
            /\ seqs[i] = file[offset + i]
            /\ names[i] = offset + i - 1
            /\ counts[i] = r.seqCounts
            /\ coverages[i] = r.average_cvg
            /\ gcs[i] = r.gc_perc
            /\ lengths[i] = r.seqLength
            /\ nonZero[i] = r.nbNonZero
            /\ percentNonZero[i] = Dbl(r.nbNonZero, r.seqLength)

C7_Witness ==
    /\ pc = "printStat"
    /\ stat.batches = 2
    /\ threads = 2
    /\ tooShort(file[1])
    /\ ~tooShort(file[3])
    /\ coverages[1] = Dbl(20, 1)

\* C8: a sequence shorter than the k-mer is not fatal: the run does not die
\* releasing the vectors of a batch that holds one.
C8_ShortSeqNonFatal ==
    (\E i \in 1..Len(seqs) : tooShort(seqs[i])) =>
        pc # "crashed_destroyBatchVars"

\* C9: a sequence shorter than the k-mer has coverage 0, nonZero 0 and no
\* count vector, and its count record is the line "0".
C9_TooShortIsZero ==
    /\ Reporting =>
        \A i \in 1..recordsInBatch :
            tooShort(seqs[i]) =>
                /\ coverages[i] = Dbl(0, 1)
                /\ nonZero[i] = 0
                /\ counts[i].null
    /\ \A j \in 1..Len(statRows) :
        tooShort(file[j]) =>
            /\ statRows[j].coverage = Dbl(0, 1)
            /\ statRows[j].nonZero = 0
    /\ \A j \in 1..Len(countRows) :
        tooShort(file[j]) => countRows[j].line = <<0>>

C9_Witness ==
    /\ Len(countRows) = 3
    /\ Len(statRows) = 3
    /\ ~tooShort(file[1])
    /\ tooShort(file[3])
    /\ countRows[3].line = <<0>>

\* The count processSeq records for one window.
windowCount(w) == IF validKmer(w) THEN getCount(hash, w, canonical) ELSE 0

\* C10: for a processed sequence at least as long as the k-mer the stored
\* count vector has length - merLen + 1 entries, entry i the count of the
\* window at offset i.
C10_CountVector ==
    \A i \in 1..Len(counts) :
        (/\ pc # "crashed_destroyBatchVars"
         /\ writers[i] # {}
         /\ ~tooShort(seqs[i])) =>
            /\ ~counts[i].null
            /\ Len(counts[i].v) = Len(seqs[i]) - merLen + 1
            /\ \A k \in 1..Len(counts[i].v) :
                   counts[i].v[k] =
                       windowCount(SubSeq(seqs[i], k, k + merLen - 1))

C10_Witness ==
    /\ writers = <<{0}>>
    /\ Len(seqs[1]) = merLen + 1
    /\ counts[1].v = <<20, 0>>

\* Value equality of two doubles, neither NaN.
DblEq(a, b) == a.den # 0 /\ b.den # 0 /\ a.num * b.den = b.num * a.den

\* Slot i of the batch has been through processSeq.
processed(i) == i \in 1..Len(writers) /\ writers[i] # {}
nbWindows(seq) == Len(seq) - merLen + 1
\* The window at 0-based offset k - 1.
window(seq, k) == SubSeq(seq, k, k + merLen - 1)
Nucleotides == {"A", "C", "G", "T", "a", "c", "g", "t"}
ambiguous(w) == \E j \in 1..Len(w) : w[j] \notin Nucleotides
lookedUp(i, k) == \E l \in lookups : l.index = i - 1 /\ l.off = k - 1
\* What the count index returns for a window of nucleotides.
adapterCount(w) == getCount(hash, mer_dna(w), canonical)

\* C11: a window with a base outside A, C, G, T (either case) has count 0
\* and no getCount call is made for it.
C11_AmbiguousWindowZero ==
    \A i \in 1..Len(counts) :
        (processed(i) /\ ~tooShort(seqs[i])) =>
            \A k \in 1..nbWindows(seqs[i]) :
                ambiguous(window(seqs[i], k)) =>
                    /\ counts[i].v[k] = 0
                    /\ ~lookedUp(i, k)

C11_Witness ==
    /\ processed(1)
    /\ seqs[1] = <<"A", "G", "N">>
    /\ counts[1].v = <<20, 0>>
    /\ lookups = {[index |-> 0, off |-> 0, mer |-> <<"A", "G">>]}

\* C12: a window of bases A, C, G, T in either case has the count the index
\* returns for it, a getCount call is made for it, and in mean mode the
\* coverage is the sum of these counts over the number of windows.
C12_NucleotideWindowLookedUp ==
    \A i \in 1..Len(counts) :
        (processed(i) /\ ~tooShort(seqs[i])) =>
            /\ \A k \in 1..nbWindows(seqs[i]) :
                   ~ambiguous(window(seqs[i], k)) =>
                       /\ counts[i].v[k] = adapterCount(window(seqs[i], k))
                       /\ lookedUp(i, k)
            /\ ~median =>
                   DblEq(coverages[i],
                         Dbl(SumSeq([k \in 1..nbWindows(seqs[i]) |->
                                 IF ambiguous(window(seqs[i], k)) THEN 0
                                 ELSE adapterCount(window(seqs[i], k))]),
                             nbWindows(seqs[i])))

\* m is the element at index floor(n / 2) of the ascending order of v.
upperMedian(v, m) ==
    /\ \E k \in 1..Len(v) : v[k] = m
    /\ Cardinality({k \in 1..Len(v) : v[k] < m}) <= Len(v) \div 2
    /\ Len(v) \div 2 < Cardinality({k \in 1..Len(v) : v[k] <= m})

\* C13: in median mode the coverage of a sequence at least as long as the
\* k-mer is the element at index floor(n / 2) of its sorted counts (the
\* upper median, no average), and the stored counts stay in window order.
C13_UpperMedian ==
    \A i \in 1..Len(counts) :
        (median /\ processed(i) /\ ~tooShort(seqs[i])) =>
            /\ coverages[i].den = 1
            /\ upperMedian(counts[i].v, coverages[i].num)
            /\ counts[i].v = <<5, 1, 3>> => coverages[i].num = 3
            /\ counts[i].v = <<1, 2, 3, 4>> => coverages[i].num = 3
            /\ \A k \in 1..nbWindows(seqs[i]) :
                   counts[i].v[k] = windowCount(window(seqs[i], k))

C13_Witness ==
    /\ median
    /\ processed(1)
    /\ counts[1].v = <<1, 2, 3, 4>>
    /\ coverages[1] = Dbl(3, 1)

\* C14: in mean mode the coverage of a sequence at least as long as the
\* k-mer is the sum of its window counts over length - merLen + 1; a window
\* forced to 0 adds 0 and still counts in the divisor.
C14_MeanOverAllWindows ==
    \A i \in 1..Len(counts) :
        (~median /\ processed(i) /\ ~tooShort(seqs[i])) =>
            DblEq(coverages[i],
                  Dbl(SumSeq([k \in 1..nbWindows(seqs[i]) |->
                                 windowCount(window(seqs[i], k))]),
                      Len(seqs[i]) - merLen + 1))

C14_Witness ==
    /\ ~median
    /\ processed(1)
    /\ seqs[1] = Str("G", "G", "N", "N")
    /\ counts[1].v = <<3, 0, 0>>
    /\ coverages[1] = Dbl(3, 3)

\* C15: for a sequence with a base that is not N, gc% is the number of G
\* and C bases over the number of bases that are not N, whatever the length
\* and the counts: 1 for GGCC, 0 for ATAT, 1 for GGNN.
C15_GcFraction ==
    \A i \in 1..Len(gcs) :
        LET seq == seqs[i]
            gc == Cardinality({j \in 1..Len(seq) : seq[j] \in {"G", "g", "C", "c"}})
            notN == Cardinality({j \in 1..Len(seq) : seq[j] \notin {"N", "n"}})
        IN (processed(i) /\ notN > 0) =>
            /\ DblEq(gcs[i], Dbl(gc, notN))
            /\ seq = Str("G", "G", "C", "C") => DblEq(gcs[i], Dbl(1, 1))
            /\ seq = Str("A", "T", "A", "T") => DblEq(gcs[i], Dbl(0, 1))
            /\ seq = Str("G", "G", "N", "N") => DblEq(gcs[i], Dbl(1, 1))

C15_Witness ==
    /\ processed(1)
    /\ seqs[1] = Str("G", "G", "N", "N")
    /\ gcs[1] = Dbl(2, 2)

hasBase(seq) == \E j \in 1..Len(seq) : seq[j] \notin {"N", "n"}

\* C16: for a sequence with a base that is not N, the GC bin passed to
\* incTM is below gcBins; with gc% = 1.0 it is the last bin, gcBins - 1.
C16_GcBinInRange ==
    \A i \in 1..Len(incs) :
        hasBase(seqs[i]) =>
            \A c \in incs[i] :
                /\ c.x < gcBins
                /\ DblEq(gcs[i], Dbl(1, 1)) => c.x = gcBins - 1

\* C17: for a sequence with no base that is not N (the empty one included)
\* gc% is a defined value, not 0/0, the GC bin passed to incTM is below
\* gcBins, and the run goes on.
C17_AllNDefined ==
    \A i \in 1..Len(incs) :
        (processed(i) /\ ~hasBase(seqs[i])) =>
            /\ ~IsNaN(gcs[i])
            /\ \A c \in incs[i] : c.x < gcBins
            /\ ~Crashed

\* C18: in log scale, for a sequence of coverage 0 (too short, or median
\* or mean count 0) the coverage bin passed to incTM is below cvgBins.
C18_LogZeroInRange ==
    cvgLogscale =>
        \A i \in 1..Len(incs) :
            (processed(i) /\ coverages[i].num = 0) =>
                \A c \in incs[i] : c.y < cvgBins

\* trunc(a * 0.1) for a double a >= 0.
truncTenth(a) ==
    CHOOSE q \in 0..a.num :
        CvgCompress * q * a.den <= a.num /\ a.num < CvgCompress * (q + 1) * a.den

\* C19: in linear scale the coverage bin passed to incTM is
\* min(trunc(coverage * 0.1), cvgBins - 1), hence below cvgBins.
C19_LinearBinCapped ==
    ~cvgLogscale =>
        \A i \in 1..Len(incs) :
            \A c \in incs[i] :
                /\ c.y = Min(truncTenth(coverages[i]), cvgBins - 1)
                /\ c.y < cvgBins

C19_Witness ==
    /\ ~cvgLogscale
    /\ processed(1)
    /\ truncTenth(coverages[1]) > cvgBins
    /\ \E c \in incs[1] : c.y = cvgBins - 1 /\ c.val = Len(seqs[1])

\* C20: a call of processSeq by worker t adds the length of the sequence to
\* one cell of the grid of thread t, the cell of the bins it computed, and
\* changes no other cell of any grid; stated for the calls whose bins are
\* defined values (linear scale, a sequence with a base that is not N).
C20_OneCellByLength ==
    [][\A t \in ThreadIds :
          LET index == calls'[t][Len(calls'[t])] IN
          (/\ Len(calls'[t]) = Len(calls[t]) + 1
           /\ ~cvgLogscale
           /\ hasBase(seqs[index + 1])) =>
              \E c \in incs'[index + 1] :
                  /\ c.x < gcBins
                  /\ c.y < cvgBins
                  /\ contamination_mx'.tm =
                         [contamination_mx.tm EXCEPT
                             ![t][c.x][c.y] = @ + Len(seqs[index + 1])]]_vars

Cells == (0..(gcBins - 1)) \X (0..(cvgBins - 1))

C22_MatrixEmittedOnce ==
    pc = "done" => Len(contamination_mx_stream) = 1

\* C24: when execute fails (sequence file missing, count index invalid,
\* output directory not creatable) nothing has been processed: no matrix,
\* no batch read, no worker spawned, no output opened, no merge.
C24_FailsBeforeProcessing ==
    pc = "failed" =>
        /\ ~contamination_mx.alloc
        /\ reader = 0
        /\ recordsInBatch = 0
        /\ stat.batches = 0 /\ stat.created = 0 /\ stat.spawned = 0
        /\ stat.merges = 0
        /\ NoWorkerAlive
        /\ count_path_stream = ClosedStream
        /\ cvg_gc_stream = ClosedStream
        /\ contamination_mx_stream = <<>>

C24_Witness ==
    /\ pc = "failed"
    /\ threads = 2
    /\ bucket_size = 1
    /\ Len(file) = 3

\* C25: in a batch with fewer records than threads, a worker whose id is
\* not below recordsInBatch calls processSeq for no index, writes no slot,
\* gets no increment in its grid, and its loop has nothing left to do;
\* whether or not the thread count exceeds BATCH_SIZE.
C25_IdleWorkerDoesNothing ==
    \A t \in Workers :
        t >= recordsInBatch =>
            /\ calls[t] = <<>>
            /\ \A i \in 1..Len(writers) : t \notin writers[i]
            /\ \A i \in 1..Len(incs) : \A c \in incs[i] : c.th_id # t
            /\ thr[t].st = "loop" => thr[t].i >= recordsInBatch

C25_Witness ==
    /\ pc = "printStat"
    /\ threads = 2
    /\ bucket_size = 1
    /\ recordsInBatch = 1
    /\ stat.batches = 2
    /\ calls[0] = <<0>>
    /\ calls[1] = <<>>

\* C26: the thread grids are built once, in execute before the first
\* batch; from then on no cell of any of them decreases, and neither the
\* allocation nor the release of the batch vectors changes them.
C26_ThreadMatricesPersist ==
    [][/\ contamination_mx.alloc =>
           /\ contamination_mx'.alloc
           /\ DOMAIN contamination_mx'.tm = DOMAIN contamination_mx.tm
           /\ \A t \in DOMAIN contamination_mx.tm : \A c \in Cells :
                  contamination_mx'.tm[t][c[1]][c[2]] >=
                      contamination_mx.tm[t][c[1]][c[2]]
       /\ (~contamination_mx.alloc /\ contamination_mx'.alloc) =>
           /\ pc = "execute"
           /\ stat.batches = 0
           /\ contamination_mx'.tm = [t \in 0..(threads - 1) |-> ZeroGrid]
       /\ pc \in {"create", "destroy"} =>
           contamination_mx' = contamination_mx]_vars

C26_Witness ==
    /\ pc = "loop"
    /\ stat.batches = 2
    /\ threads = 2
    /\ contamination_mx.tm[0][1][1] = 6
    /\ contamination_mx.tm[1][1][1] = 3

Alive == {t \in ThreadIds : thr[t].st \in {"start", "loop"}}

\* The phase that may follow each phase of the batch loop.
phaseAfter(p) ==
    CASE p = "loop" -> {"create", "merge"}
      [] p = "create" -> {"spawn"}
      [] p = "spawn" -> {"join", "crashed_incTM"}
      [] p = "join" -> {"printCounts", "printStat", "crashed_incTM"}
      [] p = "printCounts" -> {"printStat"}
      [] p = "printStat" -> {"destroy"}
      [] p = "destroy" -> {"loop", "crashed_destroyBatchVars"}
      [] OTHER -> {"execute", "failed", "processSeqFile", "loop", "done", "saved"}

\* C27: one batch at a time, in the order load, allocate, spawn, join,
\* report, release: workers are alive only between spawn and join and never
\* more than `threads` of them, and while a batch is loaded and not yet
\* reported the rows of all earlier batches, and only they, are written.
C27_OneBatchAtATime ==
    /\ [](/\ Cardinality(Alive) <= threads
          /\ Alive # {} => pc \in {"spawn", "join", "crashed_incTM"}
          /\ pc \in {"create", "spawn", "join", "printCounts", "printStat"} =>
                 /\ stat.created \in {stat.batches - 1, stat.batches}
                 /\ Len(statRows) = reader - recordsInBatch
                 /\ ~noCountStats =>
                        Len(countRows) \in {reader - recordsInBatch, reader}
          /\ pc \in {"destroy", "loop", "merge"} =>
                 /\ Len(statRows) = reader
                 /\ stat.spawned = threads * stat.batches
                 /\ stat.joined = stat.spawned)
    /\ [][pc' # pc => pc' \in phaseAfter(pc)]_vars

C27_Witness ==
    /\ pc = "join"
    /\ stat.batches = 2
    /\ threads = 3
    /\ Cardinality(Alive) = 3
    /\ Len(statRows) = 2
    /\ reader = 3

\* C28: the non-zero-window counter of a processed sequence is 1 when the
\* sequence is at least as long as the k-mer, whatever its window counts,
\* and 0 when it is shorter; percentNonZero is 0 or 1/length.
C28_NonZeroDegenerate ==
    \A i \in 1..Len(writers) :
        processed(i) =>
            /\ nonZero[i] = (IF tooShort(seqs[i]) THEN 0 ELSE 1)
            /\ \/ DblEq(percentNonZero[i], Dbl(0, 1))
               \/ DblEq(percentNonZero[i], Dbl(1, Len(seqs[i])))

\* C29: a processed sequence has exactly one increment, by its length; in
\* linear scale a sequence shorter than the k-mer with a base that is not N
\* has it in the cell of coverage bin 0 and of its GC bin, a cell of the
\* grid, which then holds the length; and no slot but its own is written.
C29_ShortSequenceOneIncrement ==
    \A i \in 1..Len(writers) :
        processed(i) =>
            /\ Cardinality(incs[i]) = 1
            /\ \A c \in incs[i] : c.val = Len(seqs[i])
            /\ \A j \in 1..Len(writers) : j # i => writers[j] = {}
            /\ (~cvgLogscale /\ tooShort(seqs[i]) /\ hasBase(seqs[i])) =>
                   \A c \in incs[i] :
                       /\ c.y = 0
                       /\ c.x < gcBins
                       /\ contamination_mx.tm[c.th_id][c.x][c.y] = Len(seqs[i])

\* The stats row of record j of the file: what processSeq derives from the
\* sequence alone, under the name and the stream format of its position.
rowOf(j) ==
    LET r == seqStats(file[j], hash, canonical, median) IN
    [name |-> j - 1, coverage |-> r.average_cvg, gc |-> r.gc_perc,
     length |-> r.seqLength, nonZero |-> r.nbNonZero,
     percentNonZero |-> Dbl(r.nbNonZero, r.seqLength),
     fixed |-> j > 1]

\* The bins processSeq can pass to incTM for a sequence: one pair where both
\* conversions are defined, any pair the conversion can yield where not.
binsOf(seq) ==
    LET r == seqStats(seq, hash, canonical, median) IN
    xBins(r.gc_perc) \X yBins(r.average_cvg, cvgLogscale)

\* A grid after an increment at the bins b, which is lost outside the grid.
addCell(g, b, val) ==
    IF b[1] < gcBins /\ b[2] < cvgBins
    THEN [g EXCEPT ![b[1]][b[2]] = @ + val] ELSE g

\* The worker that processes record j of the file: the records of a batch
\* are dealt to the workers in turn.
workerOf(j) == ((j - 1) % BATCH_SIZE) % threads

\* The thread grids that records j..n of the file can add up to, from tm.
RECURSIVE threadGridsFrom(_, _, _)
threadGridsFrom(j, n, tm) ==
    IF j > n THEN {tm}
    ELSE UNION {threadGridsFrom(j + 1, n,
                   [tm EXCEPT ![workerOf(j)] = addCell(@, b, Len(file[j]))]) :
                b \in binsOf(file[j])}

\* The merged grids that records j..n of the file can add up to, from g.
RECURSIVE mergedGridsFrom(_, _, _)
mergedGridsFrom(j, n, g) ==
    IF j > n THEN {g}
    ELSE UNION {mergedGridsFrom(j + 1, n, addCell(g, b, Len(file[j]))) :
                b \in binsOf(file[j])}

C32_EmptyInput ==
    Len(file) = 0 =>
        /\ pc \in {"execute", "failed", "processSeqFile", "loop", "merge", "done"}
        /\ stat.batches = 0
        /\ stat.created = 0
        /\ stat.spawned = 0
        /\ NoWorkerAlive
        /\ counts = <<>> /\ coverages = <<>> /\ gcs = <<>>
        /\ lengths = <<>> /\ nonZero = <<>> /\ percentNonZero = <<>>
        /\ statRows = <<>>
        /\ countRows = <<>>
        /\ pc \in {"loop", "merge", "done"} => cvg_gc_stream.header
        /\ stat.merges = (IF pc = "done" THEN 1 ELSE 0)
        /\ contamination_mx.final = ZeroGrid
        /\ pc = "done" =>
               /\ contamination_mx.maxVal = 0
               /\ \A t \in Workers : contamination_mx.tm[t] = ZeroGrid

C32_Witness ==
    /\ Len(file) = 0
    /\ pc = "done"
    /\ threads = 3
    /\ stat.merges = 1
    /\ cvg_gc_stream.header
    /\ cvg_gc_stream.state = "closed"
    /\ statRows = <<>>
    /\ contamination_mx.final = ZeroGrid

\* C31: under fair scheduling every spawned worker terminates, the join
\* of every batch completes, and a run that has passed the checks of
\* execute ends the batch loop with the file exhausted and completes the
\* merge.
C31_RunCompletes ==
    /\ \A t \in ThreadIds :
           (thr[t].st \in {"start", "loop"}) ~> (thr[t].st \in {"done", "joined", "none"})
    /\ (pc = "join") ~> (pc \in {"printCounts", "printStat"})
    /\ (pc = "processSeqFile") ~>
           (pc = "done" /\ reader = Len(file) /\ stat.merges = 1)

\* The state after either routine has processed the sequence holds, in the
\* fields both routines write, what the given derivation and bins say.
holdsResult(r, xs, ys) ==
    /\ counts[1] = r.seqCounts
    /\ coverages[1] = r.average_cvg
    /\ gcs[1] = r.gc_perc
    /\ lengths[1] = r.seqLength
    /\ Cardinality(incs[1]) = 1
    /\ \A c \in incs[1] :
           /\ c.th_id = 0
           /\ c.x \in xs
           /\ c.y \in ys
           /\ c.val = r.seqLength
           /\ contamination_mx.tm[0] = addCell(ZeroGrid, <<c.x, c.y>>, c.val)

\* C33: on an upper-case sequence over A, C, G, T, N the legacy routine and
\* the current one derive the same count vector, coverage, GC fraction and
\* length and the same bins (where a conversion to a bin is undefined, the
\* same set of possible bins), and whichever of them has run, the slots and
\* the single increment of the thread grid are the ones both derive.
C33_LegacyEquivalent ==
    LET cur == seqStats(seqs[1], hash, canonical, median)
        leg == legacySeqStats(seqs[1], hash, canonical, median)
    IN /\ cur.seqCounts = leg.seqCounts
       /\ cur.average_cvg = leg.average_cvg
       /\ cur.gc_perc = leg.gc_perc
       /\ cur.seqLength = leg.seqLength
       /\ xBins(cur.gc_perc) = legacyXBins(leg.gc_perc)
       /\ yBins(cur.average_cvg, cvgLogscale) =
              legacyYBins(leg.average_cvg, cvgLogscale)
       /\ processed(1) =>
              /\ holdsResult(cur, xBins(cur.gc_perc),
                             yBins(cur.average_cvg, cvgLogscale))
              /\ holdsResult(leg, legacyXBins(leg.gc_perc),
                             legacyYBins(leg.average_cvg, cvgLogscale))

\* The legacy routine has run (it leaves the non-zero counter alone) on a
\* sequence with a looked-up window with T and a window with N.
C33_Witness ==
    /\ processed(1)
    /\ seqs[1] = <<"G", "T", "N">>
    /\ nonZero[1] = 0
    /\ ~median
    /\ ~cvgLogscale
    /\ counts[1] = PtrTo(<<250, 0>>)
    /\ coverages[1] = Dbl(250, 2)
    /\ \E c \in incs[1] : c.x = 1 /\ c.y = 1 /\ c.val = 3
    /\ contamination_mx.tm[0][1][1] = 3

====
